---- MODULE Spec2Model ----
(***************************************************************************)
(* Model of skimage/restoration/uft.py: the unitary Fourier transforms     *)
(* (ufftn, uifftn, urfftn, uirfftn and the 2-D wrappers), image_quad_norm, *)
(* ir2tf and laplacian.                                                    *)
(*                                                                         *)
(* Numbers.  Every axis length of the model divides 12, so every DFT       *)
(* twiddle factor is a power of z = exp(2*pi*i/12).  A sample is an        *)
(* element of the ring Z[z], written on the basis 1, z, z^2, z^3           *)
(* (z^4 = z^2 - 1) as a 4-tuple of integers; this is exact arithmetic, the *)
(* rounding of float64 is not modelled.  The real scale factors of the     *)
(* module (1/sqrt(n), sqrt(n), 1/n) are kept per array as the pair         *)
(* num, den, the array's value being data * sqrt(num/den).                 *)
(*                                                                         *)
(* Arrays are records: shape (a sequence of extents) and data (the samples *)
(* in C order, as numpy stores them).  A call that raises carries the      *)
(* exception's name in err and no data.                                    *)
(***************************************************************************)
EXTENDS Integers, Sequences, FiniteSets, TLC

\* Largest axis length of an input array or of a target shape.
MaxLen == 3
\* Largest rank of an input array or of a target shape.
MaxRank == 2
\* Largest number of samples of an input array or of a target shape.
MaxSize == 9

(***************************************************************************)
(* Integer helpers.                                                        *)
(***************************************************************************)
RECURSIVE GCD(_, _)
GCD(a, b) == IF b = 0 THEN a ELSE GCD(b, a % b)

Min(a, b) == IF a <= b THEN a ELSE b

RECURSIVE Prod(_)
Prod(s) == IF s = <<>> THEN 1 ELSE Head(s) * Prod(Tail(s))

\* s[-d:] and s[:-d] for 0 <= d <= Len(s)
LastN(s, d) == SubSeq(s, Len(s) - d + 1, Len(s))
FrontN(s, d) == SubSeq(s, 1, Len(s) - d)

\* python's s[-d:] for any integer d (shape[-0:] is the whole shape, and a
\* negative d gives s[|d|:])
PySliceFromNeg(s, d) ==
    IF d = 0 THEN s
    ELSE IF d > 0 THEN (IF d >= Len(s) THEN s ELSE LastN(s, d))
    ELSE (IF -d >= Len(s) THEN <<>> ELSE SubSeq(s, 1 - d, Len(s)))

\* the largest s with s*s dividing n, and the square-free part of n
SquarePart(n) ==
    LET S == {s \in 1..n : s * s <= n /\ n % (s * s) = 0}
    IN CHOOSE s \in S : \A t \in S : t <= s
SquareFree(n) == n \div (SquarePart(n) * SquarePart(n))

(***************************************************************************)
(* The ring Z[z], z = exp(2*pi*i/12).                                      *)
(***************************************************************************)
ZZero == <<0, 0, 0, 0>>
ZInt(n) == <<n, 0, 0, 0>>
ZAdd(u, v) == <<u[1] + v[1], u[2] + v[2], u[3] + v[3], u[4] + v[4]>>
ZScale(c, u) == <<c * u[1], c * u[2], c * u[3], c * u[4]>>
ZSub(u, v) == ZAdd(u, ZScale(-1, v))
\* u * z
ZShift(u) == <<-u[4], u[1], u[2] + u[4], u[3]>>
\* u * z^e for any integer e
RECURSIVE ZRot(_, _)
ZRot(u, e) ==
    LET r == e % 12
    IN IF r = 0 THEN u
       ELSE IF r >= 6 THEN ZRot(ZScale(-1, u), r - 6)
       ELSE ZRot(ZShift(u), r - 1)
ZMul(u, v) ==
    ZAdd(ZAdd(ZScale(u[1], v), ZScale(u[2], ZRot(v, 1))),
         ZAdd(ZScale(u[3], ZRot(v, 2)), ZScale(u[4], ZRot(v, 3))))
\* complex conjugate
ZConj(u) == <<u[1] + u[3], u[2], -u[3], -u[2] - u[4]>>
\* |u|^2, twice the real part, and sqrt(3) = z + conj(z)
ZAbs2(u) == ZMul(u, ZConj(u))
ZTwiceRe(u) == ZAdd(u, ZConj(u))
ZSqrt3 == <<0, 2, 0, -1>>

\* u * sqrt(a) = v * sqrt(b), for integers a, b > 0.  sqrt(m) lies in Q(z)
\* for a square-free m > 1 only when m = 3.
ZEqScaled(u, a, v, b) ==
    LET m == SquareFree(a * b)
        s == SquarePart(a * b)
    IN IF m = 1 THEN ZScale(a, u) = ZScale(s, v)
       ELSE IF m = 3 THEN ZScale(a, u) = ZScale(s, ZMul(v, ZSqrt3))
       ELSE u = ZZero /\ v = ZZero

(***************************************************************************)
(* Arrays and optional arguments.                                          *)
(***************************************************************************)
\* an optional argument: None, or the value wrapped in a 1-tuple
None == <<>>
Some(v) == <<v>>

Arr(shape, data) ==
    [err |-> "none", shape |-> shape, data |-> data, num |-> 1, den |-> 1]
Raise(e) == [err |-> e, shape |-> <<>>, data |-> <<>>, num |-> 1, den |-> 1]
Ok(a) == a.err = "none"
Ndim(a) == Len(a.shape)
Size(a) == Prod(a.shape)

\* the array times sqrt(n/d)
TimesSqrt(a, n, d) ==
    LET g == GCD(a.num * n, a.den * d)
    IN [a EXCEPT !.num = (a.num * n) \div g, !.den = (a.den * d) \div g]

\* the index tuple of flat position f (C order), and back
RECURSIVE Digits(_, _)
Digits(f, s) ==
    IF s = <<>> THEN <<>>
    ELSE Append(Digits(f \div s[Len(s)], FrontN(s, 1)), f % s[Len(s)])
RECURSIVE FlatOf(_, _)
FlatOf(idx, s) ==
    IF s = <<>> THEN 0
    ELSE FlatOf(FrontN(idx, 1), FrontN(s, 1)) * s[Len(s)] + idx[Len(idx)]

Within(idx, s) == \A i \in 1..Len(s) : idx[i] >= 0 /\ idx[i] < s[i]
At(a, idx) == a.data[FlatOf(idx, a.shape) + 1]
\* the array read as if zero-padded (or cropped) on every axis
AtPadded(a, idx) == IF Within(idx, a.shape) THEN At(a, idx) ELSE ZZero

\* element-wise equality of the values of two arrays (scales included)
ArrEq(a, b) ==
    /\ Ok(a) /\ Ok(b)
    /\ a.shape = b.shape
    /\ \A i \in 1..Size(a) :
          ZEqScaled(a.data[i], a.num * b.den, b.data[i], b.num * a.den)

(***************************************************************************)
(* The FFT primitive, numpy.fft, by its definition.                        *)
(***************************************************************************)
\* exponent of z in the twiddle factor of output index k and input index n
\* over axes of lengths ns: sum of (12 / ns[a]) * k[a] * n[a]
RECURSIVE Twiddle(_, _, _)
Twiddle(k, n, ns) ==
    IF ns = <<>> THEN 0
    ELSE (12 \div ns[Len(ns)]) * k[Len(k)] * n[Len(n)]
         + Twiddle(FrontN(k, 1), FrontN(n, 1), FrontN(ns, 1))

\* HalfLast with the half rounded up and no extra sample: (n + 1) \div 2
HalfLastCeil(s) == [s EXCEPT ![Len(s)] = (s[Len(s)] + 1) \div 2]

\* the extents a real transform keeps: the last one becomes n \div 2 + 1
HalfLast(s) == [s EXCEPT ![Len(s)] = s[Len(s)] \div 2 + 1]

\* sum over the input positions 0..n of one block (batch index b) of
\* a[b, n] * z^(sign * Twiddle(k, n))
RECURSIVE DftSum(_, _, _, _, _, _)
DftSum(a, b, k, ns, sign, n) ==
    IF n < 0 THEN ZZero
    ELSE LET nidx == Digits(n, ns)
         IN ZAdd(ZRot(At(a, b \o nidx), sign * Twiddle(k, nidx, ns)),
                 DftSum(a, b, k, ns, sign, n - 1))

\* the transform over the last dim axes, output extents ks on those axes
Dft(a, dim, ks, sign) ==
    LET bs == FrontN(a.shape, dim)
        ns == LastN(a.shape, dim)
        os == bs \o ks
    IN [a EXCEPT !.shape = os,
                 !.data = [f \in 1..Prod(os) |->
                    LET idx == Digits(f - 1, os)
                    IN DftSum(a, FrontN(idx, dim), LastN(idx, dim), ns, sign,
                              Prod(ns) - 1)]]

\* numpy.fft.fftn(a, axes=range(-dim, 0)): the axis lookup raises for an
\* axis the array does not have; an empty range transforms nothing
np_fft_fftn(a, dim) ==
    IF dim > Ndim(a) THEN Raise("IndexError")
    ELSE IF dim <= 0 THEN a
    ELSE Dft(a, dim, LastN(a.shape, dim), -1)

\* numpy.fft.ifftn(a, axes=range(-dim, 0)): conjugate twiddles and 1/n
np_fft_ifftn(a, dim) ==
    IF dim > Ndim(a) THEN Raise("IndexError")
    ELSE IF dim <= 0 THEN a
    ELSE LET n == Prod(LastN(a.shape, dim))
         IN TimesSqrt(Dft(a, dim, LastN(a.shape, dim), 1), 1, n * n)

\* numpy.fft.rfftn(a, axes=range(-dim, 0)): rfft on the last axis (s[-1] of
\* an empty list raises), fft on the others
np_fft_rfftn(a, dim) ==
    IF dim > Ndim(a) THEN Raise("IndexError")
    ELSE IF dim <= 0 THEN Raise("IndexError")
    ELSE Dft(a, dim, HalfLast(LastN(a.shape, dim)), -1)

\* weight of last-axis frequency k in the Hermitian extension to length n
HermWeight(k, n) == IF k = 0 \/ 2 * k = n THEN 1 ELSE 2

\* sum over the positions 0..kf of the half spectrum (extents hs, read
\* zero-padded or cropped from a) of weight * a[b, k] * z^Twiddle(j, k)
RECURSIVE HermSum(_, _, _, _, _, _)
HermSum(a, b, j, s, hs, kf) ==
    IF kf < 0 THEN ZZero
    ELSE LET k == Digits(kf, hs)
         IN ZAdd(ZScale(HermWeight(k[Len(k)], s[Len(s)]),
                        ZRot(AtPadded(a, b \o k), Twiddle(j, k, s))),
                 HermSum(a, b, j, s, hs, kf - 1))

\* numpy.fft.irfftn(a, s, axes=range(-dim, 0)): _cook_nd_args, then ifft on
\* all but the last axis and irfft (length s[-1]) on the last
np_fft_irfftn(a, shape, dim) ==
    LET naxes == IF dim > 0 THEN dim ELSE 0
    IN IF shape = None /\ dim > Ndim(a) THEN Raise("IndexError")
       ELSE IF shape # None /\ Len(shape[1]) # naxes THEN Raise("ValueError")
       ELSE IF naxes = 0 THEN Raise("IndexError")
       ELSE IF dim > Ndim(a) THEN Raise("IndexError")
       ELSE LET as == LastN(a.shape, dim)
                s == IF shape = None
                     THEN [as EXCEPT ![dim] = (as[dim] - 1) * 2]
                     ELSE shape[1]
                bs == FrontN(a.shape, dim)
                os == bs \o s
                hs == HalfLast(s)
                n == Prod(s)
            IN IF \E i \in 1..dim : s[i] < 1 THEN Raise("ValueError")
               ELSE TimesSqrt(
                      [a EXCEPT !.shape = os,
                                !.data = [f \in 1..Prod(os) |->
                          LET idx == Digits(f - 1, os)
                          IN ZTwiceRe(HermSum(a, FrontN(idx, dim),
                                 LastN(idx, dim), s, hs, Prod(hs) - 1))]],
                      1, 4 * n * n)

(***************************************************************************)
(* uft.py: the unitary transforms.                                         *)
(***************************************************************************)
DimOrAll(inarray, dim) == IF dim = None THEN Ndim(inarray) ELSE dim[1]

ufftn(inarray, dim) ==
    LET d == DimOrAll(inarray, dim)
        outarray == np_fft_fftn(inarray, d)
    IN IF ~Ok(outarray) THEN outarray
       ELSE TimesSqrt(outarray, 1, Prod(PySliceFromNeg(inarray.shape, d)))

uifftn(inarray, dim) ==
    LET d == DimOrAll(inarray, dim)
        outarray == np_fft_ifftn(inarray, d)
    IN IF ~Ok(outarray) THEN outarray
       ELSE TimesSqrt(outarray, Prod(PySliceFromNeg(inarray.shape, d)), 1)

urfftn(inarray, dim) ==
    LET d == DimOrAll(inarray, dim)
        outarray == np_fft_rfftn(inarray, d)
    IN IF ~Ok(outarray) THEN outarray
       ELSE TimesSqrt(outarray, 1, Prod(PySliceFromNeg(inarray.shape, d)))

uirfftn(inarray, dim, shape) ==
    LET d == DimOrAll(inarray, dim)
        outarray == np_fft_irfftn(inarray, shape, d)
    IN IF ~Ok(outarray) THEN outarray
       ELSE TimesSqrt(outarray, Prod(PySliceFromNeg(outarray.shape, d)), 1)

ufft2(inarray) == ufftn(inarray, Some(2))
uifft2(inarray) == uifftn(inarray, Some(2))
urfft2(inarray) == urfftn(inarray, Some(2))
uirfft2(inarray, shape) == uirfftn(inarray, Some(2), shape)

(***************************************************************************)
(* uft.py: image_quad_norm.                                                *)
(***************************************************************************)
\* sum of |a[b, i]|^2 over the flat positions 0..i of the trailing block of
\* extents blk
RECURSIVE SumAbs2(_, _, _, _)
SumAbs2(a, b, blk, i) ==
    IF i < 0 THEN ZZero
    ELSE ZAdd(ZAbs2(At(a, b \o Digits(i, blk))), SumAbs2(a, b, blk, i - 1))

\* sum over the rows 0..r of |a[b, r, 0]|^2
RECURSIVE SumCol0(_, _, _)
SumCol0(a, b, r) ==
    IF r < 0 THEN ZZero
    ELSE ZAdd(ZAbs2(At(a, b \o <<r, 0>>)), SumCol0(a, b, r - 1))

image_quad_norm(inarray) ==
    IF Ndim(inarray) < 2 THEN Raise("IndexError")
    ELSE LET bs == FrontN(inarray.shape, 2)
             blk == LastN(inarray.shape, 2)
             full(b) == SumAbs2(inarray, b, blk, Prod(blk) - 1)
         IN [err |-> "none", shape |-> bs,
             data |-> [f \in 1..Prod(bs) |->
                 LET b == Digits(f - 1, bs)
                 IN IF blk[2] # blk[1]
                    THEN ZSub(ZScale(2, full(b)),
                              SumCol0(inarray, b, blk[1] - 1))
                    ELSE full(b)],
             num |-> inarray.num * inarray.num,
             den |-> inarray.den * inarray.den]

(***************************************************************************)
(* uft.py: ir2tf.                                                          *)
(***************************************************************************)
\* np_zeros filling with ones, as numpy.ones would
np_ones(shape) == Arr(shape, [f \in 1..Prod(shape) |-> ZInt(1)])

np_zeros(shape) == Arr(shape, [f \in 1..Prod(shape) |-> ZZero])

\* AssignCorner copying only what fits: src is cropped to the clipped
\* region instead of being refused
AssignCornerTruncate(a, src) ==
    LET n == Ndim(src)
        r == Ndim(a)
    IN IF n > r THEN a
       ELSE [a EXCEPT !.data = [f \in 1..Prod(a.shape) |->
                LET idx == Digits(f - 1, a.shape)
                IN AtPadded(src, SubSeq(idx, 1, n))]]

\* a[tuple(slice(0, s) for s in src.shape)] = src: the slices clip to a's
\* extents, a has to have an axis for every slice, and src is broadcast
\* (aligned on the trailing axes) to the region the slices select
AssignCorner(a, src) ==
    LET n == Ndim(src)
        r == Ndim(a)
        region == [i \in 1..r |->
                     IF i <= n THEN Min(src.shape[i], a.shape[i])
                     ELSE a.shape[i]]
    IN IF n > r THEN Raise("IndexError")
       ELSE IF \E j \in 1..n : src.shape[j] # 1
                                /\ src.shape[j] # region[j + r - n]
            THEN Raise("ValueError")
       ELSE [a EXCEPT !.data = [f \in 1..Prod(a.shape) |->
                LET idx == Digits(f - 1, a.shape)
                IN IF Within(idx, region)
                   THEN At(src, [j \in 1..n |->
                            IF src.shape[j] = 1 THEN 0 ELSE idx[j + r - n]])
                   ELSE a.data[f]]]

\* numpy.roll(a, shift, axis), axis counted from 0
np_roll(a, shift, axis) ==
    [a EXCEPT !.data = [f \in 1..Prod(a.shape) |->
        LET idx == Digits(f - 1, a.shape)
        IN At(a, [idx EXCEPT ![axis + 1] =
                     (idx[axis + 1] - shift) % a.shape[axis + 1]])]]

\* RollLoop without the test on axis: the batch axes are rolled as well
RECURSIVE RollLoopAllAxes(_, _, _, _)
RollLoopAllAxes(irpadded, imp_resp, dim, axis) ==
    IF axis >= Ndim(imp_resp) THEN irpadded
    ELSE RollLoopAllAxes(np_roll(irpadded,
                                 -(imp_resp.shape[axis + 1] \div 2), axis),
                         imp_resp, dim, axis + 1)

\* RollLoop shifting by half the padded extent instead of half the
\* original one
RECURSIVE RollLoopPaddedExtent(_, _, _, _)
RollLoopPaddedExtent(irpadded, imp_resp, dim, axis) ==
    IF axis >= Ndim(imp_resp) THEN irpadded
    ELSE RollLoopPaddedExtent(
           IF axis >= Ndim(imp_resp) - dim
           THEN np_roll(irpadded, -(irpadded.shape[axis + 1] \div 2), axis)
           ELSE irpadded,
           imp_resp, dim, axis + 1)

\* the loop of lines 417-421 from axis on
RECURSIVE RollLoop(_, _, _, _)
RollLoop(irpadded, imp_resp, dim, axis) ==
    IF axis >= Ndim(imp_resp) THEN irpadded
    ELSE RollLoop(IF axis >= Ndim(imp_resp) - dim
                  THEN np_roll(irpadded,
                               -(imp_resp.shape[axis + 1] \div 2), axis)
                  ELSE irpadded,
                  imp_resp, dim, axis + 1)

\* "if not dim": None and 0 both select every axis
Ir2tfDim(imp_resp, dim) ==
    IF dim = None \/ dim = Some(0) THEN Ndim(imp_resp) ELSE dim[1]

\* the local irpadded when the transform is reached
Irpadded(imp_resp, shape, dim) ==
    LET filled == AssignCorner(np_zeros(shape), imp_resp)
    IN IF ~Ok(filled) THEN filled
       ELSE RollLoop(filled, imp_resp, Ir2tfDim(imp_resp, dim), 0)

\* ir2tf ending with the unitary transforms urfftn and ufftn
ir2tf_unitary(imp_resp, shape, dim, is_real) ==
    LET irpadded == Irpadded(imp_resp, shape, dim)
        d == Ir2tfDim(imp_resp, dim)
    IN IF ~Ok(irpadded) THEN irpadded
       ELSE IF is_real THEN urfftn(irpadded, Some(d))
       ELSE ufftn(irpadded, Some(d))

ir2tf(imp_resp, shape, dim, is_real) ==
    LET irpadded == Irpadded(imp_resp, shape, dim)
        d == Ir2tfDim(imp_resp, dim)
    IN IF ~Ok(irpadded) THEN irpadded
       ELSE IF is_real THEN np_fft_rfftn(irpadded, d)
       ELSE np_fft_fftn(irpadded, d)

(***************************************************************************)
(* uft.py: laplacian.                                                      *)
(***************************************************************************)
\* the loop of lines 460-467 from axis dim on: the line through the centre
\* along axis dim is overwritten by -1, 0, -1
RECURSIVE LaplacianLoop(_, _, _)
LaplacianLoop(impr, ndim, dim) ==
    IF dim >= ndim THEN impr
    ELSE LaplacianLoop(
           [impr EXCEPT !.data = [f \in 1..Prod(impr.shape) |->
               LET idx == Digits(f - 1, impr.shape)
               IN IF \A i \in 1..ndim : i = dim + 1 \/ idx[i] = 1
                  THEN (IF idx[dim + 1] = 1 THEN ZZero ELSE ZInt(-1))
                  ELSE impr.data[f]]],
           ndim, dim + 1)

\* LaplacianImpr with the centre written before the loop, which then
\* overwrites it with 0
LaplacianImprCentreFirst(ndim) ==
    LET threes == [i \in 1..ndim |-> 3]
        ones == [i \in 1..ndim |-> 1]
        zeros == np_zeros(threes)
    IN LaplacianLoop([zeros EXCEPT !.data[FlatOf(ones, threes) + 1] =
                         ZInt(2 * ndim)], ndim, 0)

LaplacianImpr(ndim) ==
    LET threes == [i \in 1..ndim |-> 3]
        ones == [i \in 1..ndim |-> 1]
        lines == LaplacianLoop(np_zeros(threes), ndim, 0)
    IN [lines EXCEPT !.data[FlatOf(ones, threes) + 1] = ZInt(2 * ndim)]

\* the pair (tf, impr) as a record
laplacian(ndim, shape, is_real) ==
    [tf |-> ir2tf(LaplacianImpr(ndim), shape, None, is_real),
     impr |-> LaplacianImpr(ndim)]

(***************************************************************************)
(* The inputs of the model.                                                *)
(***************************************************************************)
\* shapes of rank r with extents 1..MaxLen and at most MaxSize samples
RECURSIVE ShapesOfRank(_)
ShapesOfRank(r) ==
    IF r = 0 THEN {<<>>}
    ELSE {t \in {Append(s, n) : s \in ShapesOfRank(r - 1), n \in 1..MaxLen} :
            Prod(t) <= MaxSize}
ArrayShapes == UNION {ShapesOfRank(r) : r \in 1..MaxRank}

\* target shapes tried for an impulse response of shape hs: every shape of
\* its rank, its trailing extents alone (the leading axes dropped), and
\* its shape with one more leading axis
TargetShapes(hs) ==
    ShapesOfRank(Len(hs))
    \cup {LastN(hs, k) : k \in 0..(Len(hs) - 1)}
    \cup (IF Len(hs) < MaxRank
          THEN {<<n>> \o hs : n \in 1..MaxLen} \cap ShapesOfRank(Len(hs) + 1)
          ELSE {})

\* real arrays of a shape: all ones, a unit impulse at each position, a
\* ramp 1, 2, 3, ... and a ramp with alternating signs 1, -2, 3, ...
RealOf(s, v(_)) == Arr(s, [f \in 1..Prod(s) |-> ZInt(v(f))])
OnesArray(s) == LET v(f) == 1 IN RealOf(s, v)
ImpulseArray(s, p) == LET v(f) == IF f = p THEN 1 ELSE 0 IN RealOf(s, v)
RampArray(s) == LET v(f) == f IN RealOf(s, v)
SignedArray(s) == LET v(f) == IF f % 2 = 1 THEN f ELSE -f IN RealOf(s, v)
RealArrays ==
    UNION {{OnesArray(s), RampArray(s), SignedArray(s)}
           \cup {ImpulseArray(s, p) : p \in 1..Prod(s)} : s \in ArrayShapes}

\* impulse responses: the same without the impulses but the last
ImpulseResponses ==
    UNION {{OnesArray(s), RampArray(s), SignedArray(s),
            ImpulseArray(s, Prod(s))} : s \in ArrayShapes}

\* the dim argument: omitted, or any integer from -1 to one past MaxRank
DimArgs == {None} \cup {Some(d) : d \in -1..(MaxRank + 1)}

(***************************************************************************)
(* State: the calls made so far, each with its arguments, the locals the   *)
(* properties speak of and its result.  A session is one call on a fresh   *)
(* input, possibly followed by one call on that call's result.             *)
(***************************************************************************)
VARIABLES calls
vars == <<calls>>

Unused == Raise("unused")
Call(fn, inarray, dim, shape, is_real, local, ret) ==
    [fn |-> fn, inarray |-> inarray, dim |-> dim, shape |-> shape,
     is_real |-> is_real, local |-> local, ret |-> ret]

Init == calls = <<>>

Fresh == calls = <<>>
\* the previous call returned an array and was one of fns
After(fns) == Len(calls) = 1 /\ calls[1].fn \in fns /\ Ok(calls[1].ret)

Call_ufftn ==
    /\ Fresh
    /\ \E x \in RealArrays, dim \in DimArgs :
          calls' = <<Call("ufftn", x, dim, None, FALSE, Unused, ufftn(x, dim))>>

Call_urfftn ==
    /\ Fresh
    /\ \E x \in RealArrays, dim \in DimArgs :
          calls' = <<Call("urfftn", x, dim, None, TRUE, Unused,
                          urfftn(x, dim))>>

Call_ufft2 ==
    /\ Fresh
    /\ \E x \in RealArrays :
          calls' = <<Call("ufft2", x, Some(2), None, FALSE, Unused, ufft2(x))>>

Call_urfft2 ==
    /\ Fresh
    /\ \E x \in RealArrays :
          calls' = <<Call("urfft2", x, Some(2), None, TRUE, Unused,
                          urfft2(x))>>

Call_uifftn ==
    /\ After({"ufftn", "ufft2"})
    /\ \E dim \in DimArgs :
          calls' = Append(calls, Call("uifftn", calls[1].ret, dim, None, FALSE,
                                      Unused, uifftn(calls[1].ret, dim)))

Call_uifft2 ==
    /\ After({"ufftn", "ufft2"})
    /\ calls' = Append(calls, Call("uifft2", calls[1].ret, Some(2), None,
                                   FALSE, Unused, uifft2(calls[1].ret)))

\* the shape argument: omitted, the shape of the array first transformed,
\* or the extents of its transformed axes
ShapeArgs(x, dim) ==
    LET d == DimOrAll(x, dim)
    IN {None, Some(x.shape)}
       \cup (IF d \in 1..Ndim(x) THEN {Some(LastN(x.shape, d))} ELSE {})

Call_uirfftn ==
    /\ After({"urfftn", "urfft2"})
    /\ \E dim \in DimArgs :
       \E shape \in ShapeArgs(calls[1].inarray, dim) :
          calls' = Append(calls, Call("uirfftn", calls[1].ret, dim, shape,
                                      TRUE, Unused,
                                      uirfftn(calls[1].ret, dim, shape)))

Call_uirfft2 ==
    /\ After({"urfftn", "urfft2"})
    /\ \E shape \in ShapeArgs(calls[1].inarray, Some(2)) :
          calls' = Append(calls, Call("uirfft2", calls[1].ret, Some(2), shape,
                                      TRUE, Unused,
                                      uirfft2(calls[1].ret, shape)))

Call_image_quad_norm ==
    /\ After({"ufftn", "ufft2", "urfftn", "urfft2"})
    /\ calls' = Append(calls, Call("image_quad_norm", calls[1].ret, None, None,
                                   FALSE, Unused,
                                   image_quad_norm(calls[1].ret)))

Call_ir2tf ==
    /\ Fresh
    /\ \E imp_resp \in ImpulseResponses, dim \in DimArgs,
          is_real \in BOOLEAN :
       \E shape \in TargetShapes(imp_resp.shape) :
          calls' = <<Call("ir2tf", imp_resp, dim, Some(shape), is_real,
                          Irpadded(imp_resp, shape, dim),
                          ir2tf(imp_resp, shape, dim, is_real))>>

Call_laplacian ==
    /\ Fresh
    /\ \E ndim \in 1..MaxRank, is_real \in BOOLEAN :
       \E shape \in TargetShapes([i \in 1..ndim |-> 3]) :
          LET r == laplacian(ndim, shape, is_real)
          IN calls' = <<Call("laplacian", Unused, Some(ndim), Some(shape),
                             is_real, r.impr, r.tf)>>

Next ==
    \/ Call_ufftn
    \/ Call_uifftn
    \/ Call_urfftn
    \/ Call_uirfftn
    \/ Call_ufft2
    \/ Call_uifft2
    \/ Call_urfft2
    \/ Call_uirfft2
    \/ Call_image_quad_norm
    \/ Call_ir2tf
    \/ Call_laplacian

Spec == Init /\ [][Next]_vars

(***************************************************************************)
(* Vocabulary of the properties.                                           *)
(***************************************************************************)
Last == calls[Len(calls)]
Called(fn) == Len(calls) >= 1 /\ Last.fn = fn
Indices(s) == {Digits(f, s) : f \in 0..(Prod(s) - 1)}
Zeros(d) == [i \in 1..d |-> 0]
\* every extent of hs fits the entry of s at the same position
Fits(hs, s) == Len(hs) = Len(s) /\ \A i \in 1..Len(hs) : hs[i] <= s[i]
\* the number of transform axes an ir2tf call uses
CallDim == Ir2tfDim(Last.inarray, Last.dim)
\* an ir2tf call with a target shape of the rank of the impulse response,
\* into which it fits, and a dim that names 1..rank of its axes
FittingIr2tf ==
    /\ Called("ir2tf")
    /\ Fits(Last.inarray.shape, Last.shape[1])
    /\ CallDim \in 1..Ndim(Last.inarray)

\* C1: an unbatched impulse response (dim left at its default) converted on
\* a target shape of its rank into which it fits gives a transfer function
\* of shape targetShape when is_real is false, and of targetShape with its
\* last entry n replaced by n \div 2 + 1 when is_real is true.
C1_Ir2tfShape ==
    (FittingIr2tf /\ Last.dim = None)
    => /\ Ok(Last.ret)
       /\ Last.ret.shape =
            IF Last.is_real
            THEN [Last.shape[1] EXCEPT ![Len(Last.shape[1])] =
                     Last.shape[1][Len(Last.shape[1])] \div 2 + 1]
            ELSE Last.shape[1]

\* C1 witness: ones((2, 2)) padded to (3, 3) with is_real gives shape (3, 2).
C1_Witness ==
    /\ FittingIr2tf /\ Last.dim = None /\ Last.is_real
    /\ Last.inarray = OnesArray(<<2, 2>>)
    /\ Last.shape = Some(<<3, 3>>)
    /\ Last.ret.shape = <<3, 2>>

\* sum of a[b, n] over the flat positions 0..n of the trailing block blk,
\* a read as zero beyond its extents
RECURSIVE BlockSum(_, _, _, _)
BlockSum(a, b, blk, n) ==
    IF n < 0 THEN ZZero
    ELSE ZAdd(AtPadded(a, b \o Digits(n, blk)), BlockSum(a, b, blk, n - 1))

\* C2: the coefficient of a transfer function at index 0 of every transform
\* axis is the plain sum of the entries of the impulse response (of each
\* batch element, when there are batch axes), with no scale factor; when
\* the impulse response is all ones and exactly fills the target shape
\* every other coefficient is 0; and ir2tf(ones((2, 2)), (2, 2)) is
\* [[4, 0], [0, 0]].
C2_ZeroFrequencyIsSum ==
    FittingIr2tf
    => LET h == Last.inarray
           tf == Last.ret
           d == CallDim
           blk == LastN(h.shape, d)
       IN /\ Ok(tf) /\ tf.num = 1 /\ tf.den = 1
          /\ \A b \in Indices(FrontN(tf.shape, d)) :
                At(tf, b \o Zeros(d)) = BlockSum(h, b, blk, Prod(blk) - 1)
          /\ (h = OnesArray(h.shape) /\ Last.shape[1] = h.shape)
             => \A k \in Indices(tf.shape) :
                   LastN(k, d) # Zeros(d) => At(tf, k) = ZZero
          /\ (h = OnesArray(<<2, 2>>) /\ Last.shape[1] = <<2, 2>>
              /\ Last.dim = None /\ Last.is_real)
             => tf = Arr(<<2, 2>>, <<ZInt(4), ZZero, ZZero, ZZero>>)

\* C2 witness: the call ir2tf(ones((2, 2)), (2, 2)) has returned.
C2_Witness ==
    /\ FittingIr2tf /\ Last.dim = None /\ Last.is_real
    /\ Last.inarray = OnesArray(<<2, 2>>)
    /\ Last.shape = Some(<<2, 2>>)
    /\ At(Last.ret, <<0, 0>>) = ZInt(4)

\* the index at which ir2tf is to leave the entry k of the impulse response
\* of shape hs in a padded array of shape ts, dim trailing axes recentred
Recentred(k, hs, ts, dim) ==
    [a \in 1..Len(hs) |->
        IF a > Len(hs) - dim THEN (k[a] - hs[a] \div 2) % ts[a] ELSE k[a]]

\* C10: the array ir2tf transforms has the target shape, holds the entry
\* h[k] at index (k[a] - floor(L[a] / 2)) mod T[a] on each of the last dim
\* axes (L the extents of h, T those of the target) and at k[a] on the
\* batch axes, and is 0 everywhere else.
C10_PaddedAndRecentred ==
    FittingIr2tf
    => LET h == Last.inarray
           ts == Last.shape[1]
           irpadded == Last.local
           pos(k) == Recentred(k, h.shape, ts, CallDim)
       IN /\ Ok(irpadded)
          /\ irpadded.shape = ts
          /\ irpadded.num = 1 /\ irpadded.den = 1
          /\ \A k \in Indices(h.shape) : At(irpadded, pos(k)) = At(h, k)
          /\ \A i \in Indices(ts) :
                (\A k \in Indices(h.shape) : pos(k) # i)
                => At(irpadded, i) = ZZero

\* C10 witness: a ramp of shape (1, 3) padded to (2, 3): the entry h[0, 0]
\* has wrapped to index 2 of the last axis and has stayed at index 0 of the
\* first, whose shift floor(1 / 2) = 0 is that of the original extent 1,
\* not of the padded extent 2.
C10_Witness ==
    /\ FittingIr2tf /\ Last.dim = None
    /\ Last.inarray = RampArray(<<1, 3>>)
    /\ Last.shape = Some(<<2, 3>>)
    /\ At(Last.local, <<0, 2>>) = ZInt(1)
    /\ At(Last.local, <<1, 2>>) = ZZero

\* C8: when the impulse response is larger than the target shape on some
\* transform axis (the axes aligned at their trailing end), or the target
\* shape has fewer entries than dim, ir2tf raises and returns nothing.
C8_MisfitRaises ==
    Called("ir2tf")
    => LET hs == Last.inarray.shape
           ts == Last.shape[1]
           off == Len(ts) - Len(hs)
           exceeds == \E a \in 1..Len(hs) :
                         /\ a > Len(hs) - CallDim
                         /\ a + off >= 1
                         /\ hs[a] > ts[a + off]
           tooShort == Len(ts) < CallDim
       IN (exceeds \/ tooShort) => ~Ok(Last.ret)

\* C8 witness: an impulse response of shape (2, 3) on the target (2, 2):
\* the assignment raises ValueError.
C8_Witness ==
    /\ Called("ir2tf") /\ Last.dim = None
    /\ Last.inarray.shape = <<2, 3>>
    /\ Last.shape = Some(<<2, 2>>)
    /\ Last.ret.err = "ValueError"

\* C7: laplacian(ndim, shape, is_real) returns a stencil of shape (3,...,3)
\* that is 2 * ndim at the centre, -1 at the 2 * ndim indices one step from
\* the centre along one axis and 0 elsewhere, with the transfer function
\* ir2tf(stencil, shape, dim = ndim, is_real); for ndim = 2 the stencil is
\* [[0, -1, 0], [-1, 4, -1], [0, -1, 0]].
C7_Laplacian ==
    Called("laplacian")
    => LET ndim == Last.dim[1]
           impr == Last.local
           off(k) == Cardinality({a \in 1..ndim : k[a] # 1})
       IN /\ Ok(impr)
          /\ impr.shape = [a \in 1..ndim |-> 3]
          /\ impr.num = 1 /\ impr.den = 1
          /\ \A k \in Indices(impr.shape) :
                At(impr, k) = IF off(k) = 0 THEN ZInt(2 * ndim)
                              ELSE IF off(k) = 1 THEN ZInt(-1)
                              ELSE ZZero
          /\ Cardinality({k \in Indices(impr.shape) : At(impr, k) = ZInt(-1)})
               = 2 * ndim
          /\ Last.ret = ir2tf(impr, Last.shape[1], Some(ndim), Last.is_real)
          /\ ndim = 2
             => impr.data = <<ZInt(0), ZInt(-1), ZInt(0),
                              ZInt(-1), ZInt(4), ZInt(-1),
                              ZInt(0), ZInt(-1), ZInt(0)>>

\* C7 witness: laplacian(2, (3, 3)) has returned a transfer function of
\* shape (3, 2) whose zero-frequency coefficient is 0, the sum of the
\* stencil.
C7_Witness ==
    /\ Called("laplacian") /\ Last.dim = Some(2) /\ Last.is_real
    /\ Last.shape = Some(<<3, 3>>)
    /\ Ok(Last.ret)
    /\ Last.ret.shape = <<3, 2>>
    /\ At(Last.ret, <<0, 0>>) = ZZero
    /\ At(Last.local, <<1, 1>>) = ZInt(4)

\* the unitary transform of this module that matches an ir2tf call, applied
\* to the array the call transforms
UnitaryOfPadded ==
    IF Last.is_real THEN urfftn(Last.local, Some(CallDim))
    ELSE ufftn(Last.local, Some(CallDim))

\* C3 as stated: the result of ir2tf is urfftn (is_real) or ufftn (not
\* is_real) of the padded and shifted array, scale 1 / sqrt(product of the
\* transformed axis lengths) included.
C3_Ir2tfIsUnitary ==
    (Called("ir2tf") /\ Ok(Last.ret)) => ArrEq(Last.ret, UnitaryOfPadded)

\* C3 amended: the final step of ir2tf is the unnormalised transform: its
\* result carries no scale factor and is sqrt(product of the transformed
\* axis lengths) times urfftn (is_real) or ufftn (not is_real) of the
\* padded and shifted array.
C3_Ir2tfIsUnnormalised ==
    (Called("ir2tf") /\ Ok(Last.ret) /\ CallDim >= 1)
    => /\ Last.ret.num = 1 /\ Last.ret.den = 1
       /\ ArrEq(Last.ret,
                TimesSqrt(UnitaryOfPadded,
                          Prod(LastN(Last.local.shape, CallDim)), 1))

\* C3 witness: ones((2, 2)) on the target (2, 2): the result is
\* 4 at the zero frequency where the unitary transform gives 2.
C3_Witness ==
    /\ Called("ir2tf") /\ Ok(Last.ret) /\ Last.dim = None /\ Last.is_real
    /\ Last.inarray = OnesArray(<<2, 2>>)
    /\ Last.shape = Some(<<2, 2>>)
    /\ At(Last.ret, <<0, 0>>) = ZInt(4)
    /\ UnitaryOfPadded.den = 4
    /\ ~ArrEq(Last.ret, UnitaryOfPadded)

\* an ir2tf call on a batched impulse response: dim names some but not all
\* of its axes
BatchedIr2tf ==
    /\ Called("ir2tf")
    /\ Last.dim # None
    /\ CallDim \in 1..(Ndim(Last.inarray) - 1)

\* a[b]: the sub-array at index b of the first axis
SubArray(a, b) ==
    LET ts == Tail(a.shape)
    IN [a EXCEPT !.shape = ts,
                 !.data = [f \in 1..Prod(ts) |-> a.data[b * Prod(ts) + f]]]

\* C4 as stated: for a batched impulse response and a target shape that
\* covers only the dim transform axes (on which the impulse response fits),
\* the padded array has the batch axes followed by the target shape and the
\* transfer function has the batch axes of the input as leading axes.
C4_BatchAxesPrefixed ==
    LET h == Last.inarray
        ts == Last.shape[1]
        bs == FrontN(h.shape, CallDim)
    IN (BatchedIr2tf /\ Fits(LastN(h.shape, CallDim), ts))
       => /\ Ok(Last.ret)
          /\ Last.local.shape = bs \o ts
          /\ FrontN(Last.ret.shape, CallDim) = bs

\* C4 amended: for a batched impulse response the target shape has the rank
\* of the impulse response, batch extents first: the padded array has
\* exactly the target shape, the leading axes of the transfer function are
\* the leading entries of the target shape, and each batch element is
\* converted independently (the result at batch index b is ir2tf of the
\* impulse response at b on the rest of the target shape); a target shape
\* that covers only the dim transform axes raises IndexError.
C4_BatchNeedsFullShape ==
    LET h == Last.inarray
        ts == Last.shape[1]
        d == CallDim
    IN BatchedIr2tf
       => /\ Len(ts) = d => Last.ret.err = "IndexError"
          /\ Fits(h.shape, ts)
             => /\ Ok(Last.ret)
                /\ Last.local.shape = ts
                /\ FrontN(Last.ret.shape, d) = FrontN(ts, d)
                /\ \A b \in 0..(h.shape[1] - 1) :
                      SubArray(Last.ret, b)
                        = ir2tf(SubArray(h, b), Tail(ts),
                                Some(d), Last.is_real)

\* C4 witness: the ramp [[1, 2], [3, 4]] as two impulse responses of length
\* 2 (dim = 1) on the target (2, 3): the result keeps the batch axis 2, and
\* the zero frequencies are the sums 3 and 7 of the two rows.
C4_Witness ==
    /\ BatchedIr2tf /\ Last.dim = Some(1) /\ ~Last.is_real
    /\ Last.inarray = RampArray(<<2, 2>>)
    /\ Last.shape = Some(<<2, 3>>)
    /\ Ok(Last.ret)
    /\ Last.ret.shape = <<2, 3>>
    /\ At(Last.ret, <<0, 0>>) = ZInt(3)
    /\ At(Last.ret, <<1, 0>>) = ZInt(7)

\* sum of the squares of the samples of a real array, as a 0-d array
RECURSIVE SumSquares(_, _)
SumSquares(x, n) ==
    IF n = 0 THEN ZZero ELSE ZAdd(ZAbs2(x.data[n]), SumSquares(x, n - 1))
Energy(x) == Arr(<<>>, <<SumSquares(x, Size(x))>>)

\* C5: for every real 2-D array x, image_quad_norm(ufft2(x)) and
\* image_quad_norm(urfft2(x)) are equal, and both are sum(|x|^2).
C5_QuadNormIsEnergy ==
    (/\ Len(calls) = 2
     /\ calls[1].fn \in {"ufft2", "urfft2"}
     /\ Ndim(calls[1].inarray) = 2
     /\ calls[2].fn = "image_quad_norm")
    => LET x == calls[1].inarray
       IN /\ ArrEq(calls[2].ret, Energy(x))
          /\ ArrEq(image_quad_norm(ufft2(x)), image_quad_norm(urfft2(x)))

\* C6: for every real array x and every dim (omitted, or 1..rank of x),
\* uirfftn(urfftn(x, dim), dim, shape = x.shape) has the shape of x and
\* equals x.
C6_RealRoundTrip ==
    (/\ Len(calls) = 2
     /\ calls[1].fn = "urfftn"
     /\ calls[2].fn = "uirfftn"
     /\ calls[2].dim = calls[1].dim
     /\ calls[2].shape = Some(calls[1].inarray.shape))
    => /\ Ok(calls[2].ret)
       /\ calls[2].ret.shape = calls[1].inarray.shape
       /\ ArrEq(calls[2].ret, calls[1].inarray)

\* C9: ufftn, uifftn, urfftn, uirfftn and ir2tf called with a dim greater
\* than the rank of the array, or with a dim that is zero or negative,
\* raise and return nothing.
C9_InvalidDimRaises ==
    (/\ Len(calls) >= 1
     /\ Last.fn \in {"ufftn", "uifftn", "urfftn", "uirfftn", "ir2tf"}
     /\ Last.dim # None
     /\ (Last.dim[1] > Ndim(Last.inarray) \/ Last.dim[1] <= 0))
    => ~Ok(Last.ret)
====
